---- MODULE Spec2Model ----
(***************************************************************************)
(* Smart link views of the document management application                 *)
(* (mayan/apps/linking/views.py): the persisted store (smart links, their  *)
(* conditions, their document types), the permission grants, and one       *)
(* action per view request.  Each action handles one request to            *)
(* completion and leaves the response in `response'.                       *)
(***************************************************************************)
EXTENDS Integers, FiniteSets, Sequences, TLC

\* ------------------------------------------------------------------ bounds

\* Primary keys the smart link table ever allocates.
MaxSmartLinks == 2
\* Primary keys the smart link condition table ever allocates.
MaxConditions == 2
\* Permission grants (role permissions and ACL entries) in the system.
MaxGrants == 3

\* ---------------------------------------------------------------- universe

Users == {"alice"}

\* Stored documents; key 4 names no document.
DocumentIds == {1, 2, 3}
DocumentKeys == DocumentIds \cup {4}

DocumentTypeIds == {"invoice", "receipt"}

SmartLinkIds == 1..MaxSmartLinks
\* One key past the last primary key names no smart link.
SmartLinkKeys == 1..(MaxSmartLinks + 1)

ConditionIds == 1..MaxConditions
ConditionKeys == 1..(MaxConditions + 1)

permission_document_view == "document_view"
permission_smart_link_view == "smart_link_view"
permission_smart_link_edit == "smart_link_edit"
permission_smart_link_delete == "smart_link_delete"
permission_smart_link_create == "smart_link_create"

DocumentPermissions == {permission_document_view}
SmartLinkPermissions ==
    {permission_smart_link_view, permission_smart_link_edit,
     permission_smart_link_delete}
Permissions ==
    DocumentPermissions \cup SmartLinkPermissions
        \cup {permission_smart_link_create}

DocumentObject(pk) == <<"document", pk>>
SmartLinkObject(pk) == <<"smart_link", pk>>

\* A condition's expression: the source document's own customer_id
\* substituted into the query, a literal, or an expression whose
\* evaluation raises.
Expressions == {"source_customer_id", "literal_42", "invalid"}

\* The smart link form's dynamic label: none, or a template over the
\* source document's fields.
DynamicLabels == {"", "customer_id_template"}

ConditionForms ==
    [expression : Expressions, negated : BOOLEAN, enabled : BOOLEAN]

VARIABLES
    documents,            \* Document rows: pk -> fields
    smart_links,          \* SmartLink rows: pk -> fields
    document_types,       \* SmartLink.document_types: pk -> set of types
    conditions,           \* SmartLinkCondition rows: pk -> fields
    next_smart_link_pk,   \* the smart link table's next primary key
    next_condition_pk,    \* the condition table's next primary key
    role_permissions,     \* permissions a user holds through a role
    acl,                  \* access control list entries on objects
    response              \* the outcome of the last request

vars ==
    <<documents, smart_links, document_types, conditions, next_smart_link_pk,
      next_condition_pk, role_permissions, acl, response>>

store == <<smart_links, document_types, conditions>>

StoreChanged == store' # store

\* ------------------------------------------------------------ access control

\* Permission.check_permissions: the permission held through a role, on no
\* object in particular.
HasRolePermission(user, permission) ==
    <<user, permission>> \in role_permissions

\* AccessControlList.objects.check_access(obj, permission, user): passes
\* when the permission is held through a role or granted on the object,
\* and raises PermissionDenied otherwise.
check_access(obj, permission, user) ==
    \/ HasRolePermission(user, permission)
    \/ <<user, permission, obj>> \in acl

\* A list view's object_permission: the source queryset restricted to the
\* objects the user holds the permission on.
FilterSmartLinksByAccess(permission, user, pks) ==
    {pk \in pks : check_access(SmartLinkObject(pk), permission, user)}

FilterDocumentsByAccess(permission, user, pks) ==
    {pk \in pks : check_access(DocumentObject(pk), permission, user)}

\* get_object_or_404
DocumentExists(pk) == pk \in DOMAIN documents
SmartLinkExists(pk) == pk \in DOMAIN smart_links
ConditionExists(pk) == pk \in DOMAIN conditions

\* ----------------------------------------------------------------- resolver

ConditionsOf(smart_link) ==
    {c \in DOMAIN conditions : conditions[c].smart_link = smart_link}

EnabledConditionsOf(smart_link) ==
    {c \in ConditionsOf(smart_link) : conditions[c].enabled}

\* One condition evaluated for a candidate target document, the source
\* document's value substituted where the expression refers to it.
ConditionMatches(c, source, target) ==
    LET plain ==
            IF conditions[c].expression = "source_customer_id"
            THEN documents[target].customer_id = documents[source].customer_id
            ELSE documents[target].customer_id = 42
    IN  IF conditions[c].negated THEN ~plain ELSE plain

\* Whether SmartLink.get_linked_document_for raises for the pair.
ResolutionRaises(smart_link, document) ==
    \E c \in EnabledConditionsOf(smart_link) :
        conditions[c].expression = "invalid"

\* The text of the exception resolution raises.
ResolutionError(smart_link) ==
    <<"query error", CHOOSE c \in EnabledConditionsOf(smart_link) :
                         conditions[c].expression = "invalid">>

\* SmartLink.get_linked_document_for(document): the documents other than
\* the source that satisfy every enabled condition.
get_linked_document_for(smart_link, document) ==
    {target \in DOMAIN documents \ {document} :
        \A c \in EnabledConditionsOf(smart_link) :
            ConditionMatches(c, document, target)}

\* SmartLink.get_dynamic_label(document): the label template interpolated
\* with the source document's fields.
get_dynamic_label(smart_link, document) ==
    IF smart_links[smart_link].dynamic_label = ""
    THEN <<>>
    ELSE <<"customer", documents[document].customer_id>>

\* ResolvedSmartLink.objects.get_for(document): the smart links enabled
\* for the document's type.
ResolvedSmartLinksFor(document) ==
    {s \in DOMAIN smart_links :
        documents[document].document_type \in document_types[s]}

\* ---------------------------------------------------------------- responses

\* A response: the request it answers (view, user, keys), how it ended
\* (ok, denied for PermissionDenied, not_found for Http404) and what the
\* handler produced; `changed' tells whether the request changed the
\* store.  Key 0 stands for a key the view does not take.
Response(view, user, document_id, smart_link_id, condition_id, status) ==
    [view |-> view, user |-> user, document_id |-> document_id,
     smart_link_id |-> smart_link_id, condition_id |-> condition_id,
     status |-> status,
     queryset |-> {}, object_list |-> {}, messages |-> {},
     raised |-> FALSE, resolved |-> FALSE, labelled |-> FALSE,
     changed |-> FALSE, title |-> <<>>, item |-> "", left |-> {}, right |-> {}]

\* ------------------------------------------------------ ResolvedSmartLinkView

\* dispatch without its second check_access: the smart link's view
\* permission is never asked for.
ResolvedSmartLinkViewDispatchDocumentOnly(user, document_id, smart_link_id) ==
    IF ~DocumentExists(document_id) THEN "not_found"
    ELSE IF ~SmartLinkExists(smart_link_id) THEN "not_found"
    ELSE IF ~check_access(DocumentObject(document_id),
                          permission_document_view, user) THEN "denied"
    ELSE "ok"

\* ResolvedSmartLinkView.dispatch up to the call of the parent's dispatch:
\* both lookups, then both permission checks.
ResolvedSmartLinkViewDispatch(user, document_id, smart_link_id) ==
    IF ~DocumentExists(document_id) THEN "not_found"
    ELSE IF ~SmartLinkExists(smart_link_id) THEN "not_found"
    ELSE IF ~check_access(DocumentObject(document_id),
                          permission_document_view, user) THEN "denied"
    ELSE IF ~check_access(SmartLinkObject(smart_link_id),
                          permission_smart_link_view, user) THEN "denied"
    ELSE "ok"

\* get_document_queryset with messages.error outside the else branch: the
\* message is recorded whether or not the edit permission is held.
get_document_queryset_message_always(user, document_id, smart_link_id) ==
    IF ~ResolutionRaises(smart_link_id, document_id)
    THEN [queryset |-> get_linked_document_for(smart_link_id, document_id),
          messages |-> {}, raised |-> FALSE, propagated |-> ""]
    ELSE [queryset |-> {},
          messages |-> {<<"Smart link query error",
                          ResolutionError(smart_link_id)>>},
          raised |-> TRUE, propagated |-> ""]

\* get_document_queryset without the inner try: the PermissionDenied of
\* the edit check leaves the method.
get_document_queryset_unguarded_check(user, document_id, smart_link_id) ==
    IF ~ResolutionRaises(smart_link_id, document_id)
    THEN [queryset |-> get_linked_document_for(smart_link_id, document_id),
          messages |-> {}, raised |-> FALSE, propagated |-> ""]
    ELSE IF ~check_access(SmartLinkObject(smart_link_id),
                          permission_smart_link_edit, user)
    THEN [queryset |-> {}, messages |-> {}, raised |-> TRUE,
          propagated |-> "denied"]
    ELSE [queryset |-> {},
          messages |-> {<<"Smart link query error",
                          ResolutionError(smart_link_id)>>},
          raised |-> TRUE, propagated |-> ""]

\* get_document_queryset falling back to Document.objects.all() instead
\* of Document.objects.none() when resolution raises.
get_document_queryset_all_on_error(user, document_id, smart_link_id) ==
    IF ~ResolutionRaises(smart_link_id, document_id)
    THEN [queryset |-> get_linked_document_for(smart_link_id, document_id),
          messages |-> {}, raised |-> FALSE, propagated |-> ""]
    ELSE IF ~check_access(SmartLinkObject(smart_link_id),
                          permission_smart_link_edit, user)
    THEN [queryset |-> DOMAIN documents, messages |-> {}, raised |-> TRUE,
          propagated |-> ""]
    ELSE [queryset |-> DOMAIN documents,
          messages |-> {<<"Smart link query error",
                          ResolutionError(smart_link_id)>>},
          raised |-> TRUE, propagated |-> ""]

\* ResolvedSmartLinkView.get_document_queryset: the queryset it returns,
\* the messages it records and the exception it lets through ("" for none).
get_document_queryset(user, document_id, smart_link_id) ==
    IF ~ResolutionRaises(smart_link_id, document_id)
    THEN [queryset |-> get_linked_document_for(smart_link_id, document_id),
          messages |-> {}, raised |-> FALSE, propagated |-> ""]
    ELSE IF ~check_access(SmartLinkObject(smart_link_id),
                          permission_smart_link_edit, user)
    THEN [queryset |-> {}, messages |-> {}, raised |-> TRUE,
          propagated |-> ""]
    ELSE [queryset |-> {},
          messages |-> {<<"Smart link query error",
                          ResolutionError(smart_link_id)>>},
          raised |-> TRUE, propagated |-> ""]

\* ResolvedSmartLinkView.get_extra_context: the page title.
ResolvedSmartLinkViewTitle(document_id, smart_link_id) ==
    LET dynamic_label == get_dynamic_label(smart_link_id, document_id)
    IN  IF dynamic_label # <<>>
        THEN <<"Documents in smart link", dynamic_label>>
        ELSE <<"Documents in smart link as related to",
               smart_link_id, document_id>>

ResolvedSmartLinkViewResponse(user, document_id, smart_link_id) ==
    LET status ==
            ResolvedSmartLinkViewDispatch(user, document_id, smart_link_id)
        base(st) ==
            Response("resolved_smart_link", user, document_id,
                     smart_link_id, 0, st)
    IN  IF status # "ok" THEN base(status)
        ELSE LET got ==
                     get_document_queryset(user, document_id, smart_link_id)
             IN  IF got.propagated # ""
                 THEN [base(got.propagated) EXCEPT
                           !.resolved = TRUE, !.raised = got.raised]
                 ELSE [base("ok") EXCEPT
                           !.resolved = TRUE,
                           !.raised = got.raised,
                           !.queryset = got.queryset,
                           !.object_list =
                               FilterDocumentsByAccess(
                                   permission_document_view, user,
                                   got.queryset),
                           !.messages = got.messages,
                           !.labelled = TRUE,
                           !.title = ResolvedSmartLinkViewTitle(
                                         document_id, smart_link_id)]

ResolvedSmartLinkView(user, document_id, smart_link_id) ==
    /\ response' =
           ResolvedSmartLinkViewResponse(user, document_id, smart_link_id)
    /\ UNCHANGED <<documents, smart_links, document_types, conditions,
                   next_smart_link_pk, next_condition_pk, role_permissions,
                   acl>>

\* -------------------------------------------- SetupSmartLinkDocumentTypesView

\* SetupSmartLinkDocumentTypesView.get_object, then the view's
\* object_permission checked on it.
SetupSmartLinkDocumentTypesViewDispatch(user, smart_link_id) ==
    IF ~SmartLinkExists(smart_link_id) THEN "not_found"
    ELSE IF ~check_access(SmartLinkObject(smart_link_id),
                          permission_smart_link_edit, user) THEN "denied"
    ELSE "ok"

\* SetupSmartLinkDocumentTypesView.add: document_types.add(item).
add(enabled, item) == enabled \cup {item}

\* remove calling document_types.clear(): every type is unassigned.
remove_clearing(enabled, item) == {}

\* SetupSmartLinkDocumentTypesView.remove: document_types.remove(item).
remove(enabled, item) == enabled \ {item}

\* left_list without its exclude(): every document type is offered.
left_list_unfiltered(smart_link_id) == DocumentTypeIds

\* SetupSmartLinkDocumentTypesView.left_list
left_list(smart_link_id) == DocumentTypeIds \ document_types[smart_link_id]

\* SetupSmartLinkDocumentTypesView.right_list
right_list(smart_link_id) == document_types[smart_link_id]

SetupResponse(view, user, smart_link_id, status) ==
    Response(view, user, 0, smart_link_id, 0, status)

\* A GET of the view: both lists.
SetupSmartLinkDocumentTypesViewGet(user, smart_link_id) ==
    LET status == SetupSmartLinkDocumentTypesViewDispatch(user, smart_link_id)
    IN  /\ response' =
               IF status # "ok"
               THEN SetupResponse("setup_document_types", user,
                                  smart_link_id, status)
               ELSE [SetupResponse("setup_document_types", user,
                                   smart_link_id, "ok") EXCEPT
                         !.left = left_list(smart_link_id),
                         !.right = right_list(smart_link_id)]
        /\ UNCHANGED <<documents, smart_links, document_types, conditions,
                       next_smart_link_pk, next_condition_pk,
                       role_permissions, acl>>

\* A POST that adds one item of the left list's form.
SetupSmartLinkDocumentTypesViewAdd(user, smart_link_id, item) ==
    LET status == SetupSmartLinkDocumentTypesViewDispatch(user, smart_link_id)
    IN  /\ document_types' =
               IF status = "ok"
               THEN [document_types EXCEPT
                         ![smart_link_id] =
                             add(document_types[smart_link_id], item)]
               ELSE document_types
        /\ UNCHANGED <<documents, smart_links, conditions,
                       next_smart_link_pk, next_condition_pk,
                       role_permissions, acl>>
        /\ response' =
               [SetupResponse("setup_add", user, smart_link_id, status)
                     EXCEPT !.item = item, !.changed = StoreChanged]

\* A POST that removes one item of the right list's form.
SetupSmartLinkDocumentTypesViewRemove(user, smart_link_id, item) ==
    LET status == SetupSmartLinkDocumentTypesViewDispatch(user, smart_link_id)
    IN  /\ document_types' =
               IF status = "ok"
               THEN [document_types EXCEPT
                         ![smart_link_id] =
                             remove(document_types[smart_link_id], item)]
               ELSE document_types
        /\ UNCHANGED <<documents, smart_links, conditions,
                       next_smart_link_pk, next_condition_pk,
                       role_permissions, acl>>
        /\ response' =
               [SetupResponse("setup_remove", user, smart_link_id, status)
                     EXCEPT !.item = item, !.changed = StoreChanged]

\* ----------------------------------------------------------- smart link lists

\* SmartLinkListView.get_smart_link_queryset
SmartLinkListViewSource == DOMAIN smart_links

\* SmartLinkListView: the source queryset restricted by object_permission.
SmartLinkListViewResponse(user) ==
    [Response("smart_link_list", user, 0, 0, 0, "ok") EXCEPT
         !.queryset = FilterSmartLinksByAccess(
                          permission_smart_link_view, user,
                          SmartLinkListViewSource)]

SmartLinkListView(user) ==
    /\ response' = SmartLinkListViewResponse(user)
    /\ UNCHANGED <<documents, smart_links, document_types, conditions,
                   next_smart_link_pk, next_condition_pk, role_permissions,
                   acl>>

\* DocumentSmartLinkListView.dispatch up to the parent's dispatch.
DocumentSmartLinkListViewDispatch(user, document_id) ==
    IF ~DocumentExists(document_id) THEN "not_found"
    ELSE IF ~check_access(DocumentObject(document_id),
                          permission_document_view, user) THEN "denied"
    ELSE "ok"

\* DocumentSmartLinkListView without the inherited object_permission: the
\* source queryset is listed as it is.
DocumentSmartLinkListViewResponseUnfiltered(user, document_id) ==
    LET status == DocumentSmartLinkListViewDispatch(user, document_id)
        base(st) ==
            Response("document_smart_link_list", user, document_id, 0, 0, st)
    IN  IF status # "ok" THEN base(status)
        ELSE [base("ok") EXCEPT
                  !.queryset = ResolvedSmartLinksFor(document_id)]

\* DocumentSmartLinkListView: get_smart_link_queryset restricted by the
\* inherited object_permission.
DocumentSmartLinkListViewResponse(user, document_id) ==
    LET status == DocumentSmartLinkListViewDispatch(user, document_id)
        base(st) ==
            Response("document_smart_link_list", user, document_id, 0, 0, st)
    IN  IF status # "ok" THEN base(status)
        ELSE [base("ok") EXCEPT
                  !.queryset = FilterSmartLinksByAccess(
                                   permission_smart_link_view, user,
                                   ResolvedSmartLinksFor(document_id))]

DocumentSmartLinkListView(user, document_id) ==
    /\ response' = DocumentSmartLinkListViewResponse(user, document_id)
    /\ UNCHANGED <<documents, smart_links, document_types, conditions,
                   next_smart_link_pk, next_condition_pk, role_permissions,
                   acl>>

\* ------------------------------------------------- smart link create/edit/delete

\* SmartLinkCreateView: view_permission, then the form saved as a new row.
SmartLinkCreateViewDispatch(user) ==
    IF ~HasRolePermission(user, permission_smart_link_create) THEN "denied"
    ELSE "ok"

SmartLinkCreateView(user, dynamic_label) ==
    LET status == SmartLinkCreateViewDispatch(user)
        pk == next_smart_link_pk
    IN  /\ status = "ok" => pk <= MaxSmartLinks
        /\ IF status = "ok"
           THEN /\ smart_links' =
                       [k \in DOMAIN smart_links \cup {pk} |->
                           IF k = pk
                           THEN [dynamic_label |-> dynamic_label]
                           ELSE smart_links[k]]
                /\ document_types' =
                       [k \in DOMAIN document_types \cup {pk} |->
                           IF k = pk THEN {} ELSE document_types[k]]
                /\ next_smart_link_pk' = pk + 1
           ELSE UNCHANGED <<smart_links, document_types, next_smart_link_pk>>
        /\ UNCHANGED <<documents, conditions, next_condition_pk,
                       role_permissions, acl>>
        /\ response' =
               [Response("smart_link_create", user, 0,
                         IF status = "ok" THEN pk ELSE 0, 0, status)
                    EXCEPT !.changed = StoreChanged]

\* SmartLinkEditView: get_object, object_permission, then the form saved.
SmartLinkEditViewDispatch(user, smart_link_id) ==
    IF ~SmartLinkExists(smart_link_id) THEN "not_found"
    ELSE IF ~check_access(SmartLinkObject(smart_link_id),
                          permission_smart_link_edit, user) THEN "denied"
    ELSE "ok"

SmartLinkEditView(user, smart_link_id, dynamic_label) ==
    LET status == SmartLinkEditViewDispatch(user, smart_link_id)
    IN  /\ smart_links' =
               IF status = "ok"
               THEN [smart_links EXCEPT
                         ![smart_link_id].dynamic_label = dynamic_label]
               ELSE smart_links
        /\ UNCHANGED <<documents, document_types, conditions,
                       next_smart_link_pk, next_condition_pk,
                       role_permissions, acl>>
        /\ response' =
               [Response("smart_link_edit", user, 0, smart_link_id, 0, status)
                    EXCEPT !.changed = StoreChanged]

\* SmartLinkDeleteView: get_object and object_permission.
SmartLinkDeleteViewDispatch(user, smart_link_id) ==
    IF ~SmartLinkExists(smart_link_id) THEN "not_found"
    ELSE IF ~check_access(SmartLinkObject(smart_link_id),
                          permission_smart_link_delete, user) THEN "denied"
    ELSE "ok"

\* The condition rows left when a smart link's row is deleted: the
\* conditions that reference it are deleted with it.
CascadeDelete(smart_link_id) ==
    [c \in DOMAIN conditions \ ConditionsOf(smart_link_id) |-> conditions[c]]

SmartLinkDeleteView(user, smart_link_id) ==
    LET status == SmartLinkDeleteViewDispatch(user, smart_link_id)
    IN  /\ IF status = "ok"
           THEN /\ smart_links' =
                       [k \in DOMAIN smart_links \ {smart_link_id} |->
                           smart_links[k]]
                /\ document_types' =
                       [k \in DOMAIN document_types \ {smart_link_id} |->
                           document_types[k]]
                /\ conditions' = CascadeDelete(smart_link_id)
           ELSE UNCHANGED <<smart_links, document_types, conditions>>
        /\ UNCHANGED <<documents, next_smart_link_pk, next_condition_pk,
                       role_permissions, acl>>
        /\ response' =
               [Response("smart_link_delete", user, 0, smart_link_id, 0,
                         status)
                    EXCEPT !.changed = StoreChanged]

\* ------------------------------------------------------ smart link conditions

\* SmartLinkConditionListView without its view_permission.
SmartLinkConditionListViewDispatchUngated(user, smart_link_id) ==
    IF ~SmartLinkExists(smart_link_id) THEN "not_found"
    ELSE "ok"

\* SmartLinkConditionListView: view_permission is checked before the
\* handler runs; get_smart_link is called by the handler.
SmartLinkConditionListViewDispatch(user, smart_link_id) ==
    IF ~HasRolePermission(user, permission_smart_link_edit) THEN "denied"
    ELSE IF ~SmartLinkExists(smart_link_id) THEN "not_found"
    ELSE "ok"

SmartLinkConditionListViewResponse(user, smart_link_id) ==
    LET status == SmartLinkConditionListViewDispatch(user, smart_link_id)
        base(st) ==
            Response("smart_link_condition_list", user, 0, smart_link_id,
                     0, st)
    IN  IF status # "ok" THEN base(status)
        ELSE [base("ok") EXCEPT !.queryset = ConditionsOf(smart_link_id)]

SmartLinkConditionListView(user, smart_link_id) ==
    /\ response' = SmartLinkConditionListViewResponse(user, smart_link_id)
    /\ UNCHANGED <<documents, smart_links, document_types, conditions,
                   next_smart_link_pk, next_condition_pk, role_permissions,
                   acl>>

\* SmartLinkConditionCreateView.dispatch up to the parent's dispatch.
SmartLinkConditionCreateViewDispatch(user, smart_link_id) ==
    IF ~SmartLinkExists(smart_link_id) THEN "not_found"
    ELSE IF ~check_access(SmartLinkObject(smart_link_id),
                          permission_smart_link_edit, user) THEN "denied"
    ELSE "ok"

\* get_instance_extra_data returning no smart link: the new row's foreign
\* key is left unset.
get_instance_extra_data_unbound(smart_link_id) == [smart_link |-> 0]

\* SmartLinkConditionCreateView.get_instance_extra_data
get_instance_extra_data(smart_link_id) == [smart_link |-> smart_link_id]

\* The new row: the form's fields and the instance's extra data.
NewCondition(form, extra) ==
    [smart_link |-> extra.smart_link, expression |-> form.expression,
     negated |-> form.negated, enabled |-> form.enabled]

SmartLinkConditionCreateView(user, smart_link_id, form) ==
    LET status == SmartLinkConditionCreateViewDispatch(user, smart_link_id)
        pk == next_condition_pk
    IN  /\ status = "ok" => pk <= MaxConditions
        /\ IF status = "ok"
           THEN /\ conditions' =
                       [c \in DOMAIN conditions \cup {pk} |->
                           IF c = pk
                           THEN NewCondition(
                                    form,
                                    get_instance_extra_data(smart_link_id))
                           ELSE conditions[c]]
                /\ next_condition_pk' = pk + 1
           ELSE UNCHANGED <<conditions, next_condition_pk>>
        /\ UNCHANGED <<documents, smart_links, document_types,
                       next_smart_link_pk, role_permissions, acl>>
        /\ response' =
               [Response("smart_link_condition_create", user, 0,
                         smart_link_id, IF status = "ok" THEN pk ELSE 0,
                         status)
                    EXCEPT !.changed = StoreChanged]

\* SmartLinkConditionEditView.dispatch and SmartLinkConditionDeleteView
\* .dispatch up to the parent's dispatch: get_object, then the edit
\* permission checked on the condition's smart link.
SmartLinkConditionObjectDispatch(user, condition_id) ==
    IF ~ConditionExists(condition_id) THEN "not_found"
    ELSE IF ~check_access(SmartLinkObject(conditions[condition_id].smart_link),
                          permission_smart_link_edit, user) THEN "denied"
    ELSE "ok"

SmartLinkConditionEditViewDispatch(user, condition_id) ==
    SmartLinkConditionObjectDispatch(user, condition_id)

\* SmartLinkConditionDeleteView.dispatch without its check_access.
SmartLinkConditionDeleteViewDispatchUnchecked(user, condition_id) ==
    IF ~ConditionExists(condition_id) THEN "not_found"
    ELSE "ok"

SmartLinkConditionDeleteViewDispatch(user, condition_id) ==
    SmartLinkConditionObjectDispatch(user, condition_id)

SmartLinkConditionEditView(user, condition_id, form) ==
    LET status == SmartLinkConditionEditViewDispatch(user, condition_id)
    IN  /\ conditions' =
               IF status = "ok"
               THEN [conditions EXCEPT
                         ![condition_id] =
                             NewCondition(form, conditions[condition_id])]
               ELSE conditions
        /\ UNCHANGED <<documents, smart_links, document_types,
                       next_smart_link_pk, next_condition_pk,
                       role_permissions, acl>>
        /\ response' =
               [Response("smart_link_condition_edit", user, 0,
                         IF ConditionExists(condition_id)
                         THEN conditions[condition_id].smart_link ELSE 0,
                         condition_id, status)
                    EXCEPT !.changed = StoreChanged]

SmartLinkConditionDeleteView(user, condition_id) ==
    LET status == SmartLinkConditionDeleteViewDispatch(user, condition_id)
    IN  /\ conditions' =
               IF status = "ok"
               THEN [c \in DOMAIN conditions \ {condition_id} |->
                        conditions[c]]
               ELSE conditions
        /\ UNCHANGED <<documents, smart_links, document_types,
                       next_smart_link_pk, next_condition_pk,
                       role_permissions, acl>>
        /\ response' =
               [Response("smart_link_condition_delete", user, 0,
                         IF ConditionExists(condition_id)
                         THEN conditions[condition_id].smart_link ELSE 0,
                         condition_id, status)
                    EXCEPT !.changed = StoreChanged]

\* ------------------------------------------------------------ specification

\* The grants a system may hold on the permissions `perms': role
\* permissions, and ACL entries on the stored documents and on the smart
\* link primary keys.
RoleGrants(perms) == Users \X perms
DocumentGrants(perms) ==
    {<<u, p, DocumentObject(d)>> :
        u \in Users, p \in perms \cap DocumentPermissions, d \in DocumentIds}
SmartLinkGrants(perms) ==
    {<<u, p, SmartLinkObject(s)>> :
        u \in Users, p \in perms \cap SmartLinkPermissions,
        s \in SmartLinkIds}

\* The document table: two invoices of one customer, one receipt of
\* another.
DocumentRows ==
    [pk \in DocumentIds |->
        IF pk = 3
        THEN [document_type |-> "receipt", customer_id |-> 7]
        ELSE [document_type |-> "invoice", customer_id |-> 42]]

\* The forms the condition requests submit: enabled, plain conditions of
\* every expression.
SubmittedForms == {f \in ConditionForms : f.enabled /\ ~f.negated}

\* A store that earlier requests left behind: some smart links, enabled
\* for invoices, and at most `initial' conditions on them, their fields
\* drawn from `forms'; the grants are any `grants' or fewer on the
\* permissions `perms'.
InitWith(perms, forms, initial, grants) ==
    /\ documents = DocumentRows
    /\ \E n \in 1..MaxSmartLinks :
           /\ smart_links = [pk \in 1..n |-> [dynamic_label |-> ""]]
           /\ document_types = [pk \in 1..n |-> {"invoice"}]
           /\ next_smart_link_pk = n + 1
           /\ \E m \in 0..initial :
                  /\ \E owner \in [1..m -> 1..n], form \in [1..m -> forms] :
                         conditions =
                             [c \in 1..m |->
                                 NewCondition(form[c],
                                              [smart_link |-> owner[c]])]
                  /\ next_condition_pk = m + 1
    /\ \E roles \in SUBSET RoleGrants(perms) :
       \E entries \in SUBSET (DocumentGrants(perms) \cup SmartLinkGrants(perms)) :
           /\ Cardinality(roles) + Cardinality(entries) <= grants
           /\ role_permissions = roles
           /\ acl = entries
    /\ response = Response("none", "", 0, 0, 0, "ok")

\* Every view, on a store with one condition slot left, under one grant.
Init == InitWith(Permissions, SubmittedForms, MaxConditions - 1, 1)

ResolvedSmartLinkRequests ==
    \E u \in Users, d \in DocumentKeys, s \in SmartLinkKeys :
        ResolvedSmartLinkView(u, d, s)

SetupRequests ==
    \/ \E u \in Users, s \in SmartLinkKeys :
           SetupSmartLinkDocumentTypesViewGet(u, s)
    \/ \E u \in Users, s \in SmartLinkKeys, t \in DocumentTypeIds :
           SetupSmartLinkDocumentTypesViewAdd(u, s, t)
    \/ \E u \in Users, s \in SmartLinkKeys, t \in DocumentTypeIds :
           SetupSmartLinkDocumentTypesViewRemove(u, s, t)

ListRequests ==
    \/ \E u \in Users : SmartLinkListView(u)
    \/ \E u \in Users, d \in DocumentKeys : DocumentSmartLinkListView(u, d)

SmartLinkRequests ==
    \/ \E u \in Users, l \in DynamicLabels : SmartLinkCreateView(u, l)
    \/ \E u \in Users, s \in SmartLinkKeys, l \in DynamicLabels :
           SmartLinkEditView(u, s, l)
    \/ \E u \in Users, s \in SmartLinkKeys : SmartLinkDeleteView(u, s)

ConditionRequests ==
    \/ \E u \in Users, s \in SmartLinkKeys : SmartLinkConditionListView(u, s)
    \/ \E u \in Users, s \in SmartLinkKeys, f \in SubmittedForms :
           SmartLinkConditionCreateView(u, s, f)
    \/ \E u \in Users, c \in ConditionKeys, f \in SubmittedForms :
           SmartLinkConditionEditView(u, c, f)
    \/ \E u \in Users, c \in ConditionKeys : SmartLinkConditionDeleteView(u, c)

Next ==
    \/ ResolvedSmartLinkRequests
    \/ SetupRequests
    \/ ListRequests
    \/ SmartLinkRequests
    \/ ConditionRequests

Spec == Init /\ [][Next]_vars

\* The resolved smart link view over every store of MaxConditions or fewer
\* conditions, under the permissions the view checks.
InitResolve ==
    InitWith({permission_document_view, permission_smart_link_view,
              permission_smart_link_edit}, ConditionForms, MaxConditions,
             MaxGrants)

NextResolve == ResolvedSmartLinkRequests

SpecResolve == InitResolve /\ [][NextResolve]_vars

\* Smart links and their conditions created, edited and deleted.
InitConditions ==
    InitWith({permission_smart_link_edit, permission_smart_link_create,
              permission_smart_link_delete}, SubmittedForms,
             MaxConditions - 1, MaxGrants)

NextConditions == SmartLinkRequests \/ ConditionRequests

SpecConditions == InitConditions /\ [][NextConditions]_vars

\* The smart link lists and the document types of a smart link.
InitLists ==
    InitWith({permission_document_view, permission_smart_link_view,
              permission_smart_link_edit}, SubmittedForms, 0, MaxGrants)

NextLists == SetupRequests \/ ListRequests

SpecLists == InitLists /\ [][NextLists]_vars

\* ------------------------------------------------------------------- claims

\* The response answers a request of the resolved smart link view that
\* reached get_document_queryset.
ResolvedRequestHandled ==
    /\ response.view = "resolved_smart_link"
    /\ response.resolved

\* Resolution raises for the pair the response answers.
ResolvedRequestFailed ==
    /\ ResolvedRequestHandled
    /\ ResolutionRaises(response.smart_link_id, response.document_id)

ResponseUserMayEdit ==
    check_access(SmartLinkObject(response.smart_link_id),
                 permission_smart_link_edit, response.user)

\* C1: when resolution fails for a user who does not hold the smart link
\* edit permission on the smart link, no message is recorded for the
\* request and the queryset is empty.
C1_NoErrorTextWithoutEdit ==
    (ResolvedRequestFailed /\ ~ResponseUserMayEdit)
        => (response.messages = {} /\ response.queryset = {})

\* A failed resolution answered to a user without the edit permission.
C1_Witness ==
    /\ ResolvedRequestFailed
    /\ ~ResponseUserMayEdit
    /\ response.messages = {}

\* C2: whenever resolution raises, get_document_queryset returns the
\* empty queryset and the request does not end in a failure, whoever the
\* user is.
C2_FailsGracefully ==
    ResolvedRequestFailed
        => (response.status = "ok" /\ response.queryset = {})

\* A failed resolution whose inner edit check raised PermissionDenied: the
\* user holds the edit permission on another smart link only.
C2_Witness ==
    /\ ResolvedRequestFailed
    /\ ~ResponseUserMayEdit
    /\ \E s \in DOMAIN smart_links :
           /\ s # response.smart_link_id
           /\ check_access(SmartLinkObject(s), permission_smart_link_edit,
                           response.user)
    /\ response.status = "ok"

\* C3: the view resolves the smart link, or evaluates its dynamic label,
\* only for a user who holds the document view permission on the document
\* and the smart link view permission on the smart link; with both objects
\* found and either permission missing the request ends denied with
\* nothing evaluated.
C3_ChecksBeforeResolution ==
    response.view = "resolved_smart_link" =>
        LET both ==
                /\ check_access(DocumentObject(response.document_id),
                                permission_document_view, response.user)
                /\ check_access(SmartLinkObject(response.smart_link_id),
                                permission_smart_link_view, response.user)
        IN  /\ (response.resolved \/ response.labelled) => both
            /\ (/\ DocumentExists(response.document_id)
                /\ SmartLinkExists(response.smart_link_id)
                /\ ~both)
                   => (/\ response.status = "denied"
                       /\ ~response.resolved
                       /\ ~response.labelled
                       /\ response.queryset = {})

\* A request denied by the second check: the document may be viewed, the
\* smart link may not.
C3_Witness ==
    /\ response.view = "resolved_smart_link"
    /\ response.status = "denied"
    /\ check_access(DocumentObject(response.document_id),
                    permission_document_view, response.user)
    /\ ~check_access(SmartLinkObject(response.smart_link_id),
                     permission_smart_link_view, response.user)
    /\ ~response.resolved

ConditionMutationViews ==
    {"smart_link_condition_create", "smart_link_condition_edit",
     "smart_link_condition_delete"}

\* C4: a condition is created, edited or deleted only for a user who
\* holds the smart link edit permission on the owning smart link; without
\* it the request ends denied (the object being found) and the store is
\* unchanged.
C4_ConditionMutationNeedsEdit ==
    response.view \in ConditionMutationViews =>
        LET may_edit ==
                check_access(SmartLinkObject(response.smart_link_id),
                             permission_smart_link_edit, response.user)
        IN  /\ (response.status = "ok" \/ response.changed) => may_edit
            /\ (~may_edit /\ response.status # "not_found")
                   => (response.status = "denied" /\ ~response.changed)

\* A delete of a condition denied: the condition is still stored.
C4_Witness ==
    /\ response.view = "smart_link_condition_delete"
    /\ response.status = "denied"
    /\ ConditionExists(response.condition_id)
    /\ ~check_access(SmartLinkObject(
                         conditions[response.condition_id].smart_link),
                     permission_smart_link_edit, response.user)

\* C7: every stored condition references an existing smart link; a
\* condition created through the create view references the smart link
\* of the URL; after a smart link is deleted none of its conditions is
\* left.
C7_ConditionsReferenceSmartLink ==
    /\ \A c \in DOMAIN conditions :
           conditions[c].smart_link \in DOMAIN smart_links
    /\ (response.view = "smart_link_condition_create"
            /\ response.status = "ok")
           => /\ ConditionExists(response.condition_id)
              /\ conditions[response.condition_id].smart_link
                     = response.smart_link_id
    /\ (response.view = "smart_link_delete" /\ response.status = "ok")
           => /\ ~SmartLinkExists(response.smart_link_id)
              /\ ConditionsOf(response.smart_link_id) = {}

\* A smart link deleted by a user who may edit no smart link, so that no
\* condition view deleted anything: the condition the table once held
\* went with its smart link.
C7_Witness ==
    /\ response.view = "smart_link_delete"
    /\ response.status = "ok"
    /\ next_condition_pk > 1
    /\ DOMAIN conditions = {}
    /\ \A s \in SmartLinkKeys :
           ~check_access(SmartLinkObject(s), permission_smart_link_edit,
                         response.user)

\* C10: the conditions of a smart link are listed only for a user who
\* holds the smart link edit permission on that smart link; a user
\* without it gets no list.
C10_ConditionListNeedsEdit ==
    response.view = "smart_link_condition_list" =>
        LET may_edit ==
                check_access(SmartLinkObject(response.smart_link_id),
                             permission_smart_link_edit, response.user)
        IN  /\ response.status = "ok" => may_edit
            /\ ~may_edit => (response.status # "ok" /\ response.queryset = {})

\* The list of a smart link's conditions refused to a user whose edit
\* permission is granted on another smart link only.
C10_Witness ==
    /\ response.view = "smart_link_condition_list"
    /\ SmartLinkExists(response.smart_link_id)
    /\ ConditionsOf(response.smart_link_id) # {}
    /\ ~check_access(SmartLinkObject(response.smart_link_id),
                     permission_smart_link_edit, response.user)
    /\ \E s \in DOMAIN smart_links :
           /\ s # response.smart_link_id
           /\ check_access(SmartLinkObject(s), permission_smart_link_edit,
                           response.user)
    /\ response.status = "denied"

\* C5: an add leaves the type assigned and a remove leaves it unassigned;
\* an add of an assigned type and a remove of an unassigned type change
\* neither list; an add repeated on the same smart link and type changes
\* nothing the first add left.
C5_AssignRemoveIdempotent ==
    [][\A s \in SmartLinkKeys :
           LET r == response'
               same == /\ right_list(s)' = right_list(s)
                       /\ left_list(s)' = left_list(s)
           IN  r.smart_link_id = s =>
                   /\ (r.view = "setup_add" /\ r.status = "ok")
                          => /\ r.item \in right_list(s)'
                             /\ r.item \notin left_list(s)'
                             /\ r.item \in right_list(s) => same
                   /\ (r.view = "setup_remove" /\ r.status = "ok")
                          => /\ r.item \notin right_list(s)'
                             /\ r.item \in left_list(s)'
                             /\ r.item \notin right_list(s) => same
                   /\ (/\ r.view = "setup_add"
                       /\ r.status = "ok"
                       /\ response.view = "setup_add"
                       /\ response.status = "ok"
                       /\ response.smart_link_id = s
                       /\ response.item = r.item)
                          => same
      ]_vars

\* An add of a type that was assigned already: the request succeeded and
\* changed nothing.
C5_Witness ==
    /\ response.view = "setup_add"
    /\ response.status = "ok"
    /\ ~response.changed
    /\ response.item \in right_list(response.smart_link_id)

\* The smart links a list view may show a user: those of the source set on
\* which the user holds the smart link view permission.
VisibleSmartLinks(user, source) ==
    {s \in source :
        check_access(SmartLinkObject(s), permission_smart_link_view, user)}

\* The smart links enabled for a document's type.
SmartLinksOfDocument(document_id) ==
    {s \in DOMAIN smart_links :
        documents[document_id].document_type \in document_types[s]}

\* C8, as first stated: both list views answer every user with exactly
\* the smart links of their source set on which the user holds the view
\* permission.
C8_EveryUserGetsFilteredList ==
    /\ response.view = "smart_link_list"
           => /\ response.status = "ok"
              /\ response.queryset =
                     VisibleSmartLinks(response.user, DOMAIN smart_links)
    /\ (response.view = "document_smart_link_list"
            /\ DocumentExists(response.document_id))
           => /\ response.status = "ok"
              /\ response.queryset =
                     VisibleSmartLinks(
                         response.user,
                         SmartLinksOfDocument(response.document_id))

\* C8: SmartLinkListView answers every user, and DocumentSmartLinkListView
\* every user who holds the document view permission on the document,
\* with exactly the smart links of the source set on which the user holds
\* the view permission; DocumentSmartLinkListView is denied only for want
\* of the document view permission.
C8_ListsFilter ==
    /\ response.view = "smart_link_list"
           => /\ response.status = "ok"
              /\ response.queryset =
                     VisibleSmartLinks(response.user, DOMAIN smart_links)
    /\ (response.view = "document_smart_link_list"
            /\ DocumentExists(response.document_id))
           => IF check_access(DocumentObject(response.document_id),
                              permission_document_view, response.user)
              THEN /\ response.status = "ok"
                   /\ response.queryset =
                          VisibleSmartLinks(
                              response.user,
                              SmartLinksOfDocument(response.document_id))
              ELSE /\ response.status = "denied"
                   /\ response.queryset = {}

\* A document's smart links listed with one of them left out: the user
\* holds the view permission on one smart link of the source set and not
\* on another.
C8_Witness ==
    /\ response.view = "document_smart_link_list"
    /\ response.status = "ok"
    /\ response.queryset # {}
    /\ response.queryset # SmartLinksOfDocument(response.document_id)

DocumentKeyViews == {"resolved_smart_link", "document_smart_link_list"}

SmartLinkKeyViews ==
    {"resolved_smart_link", "setup_document_types", "setup_add",
     "setup_remove", "smart_link_edit", "smart_link_delete",
     "smart_link_condition_list", "smart_link_condition_create"}

ConditionKeyViews ==
    {"smart_link_condition_edit", "smart_link_condition_delete"}

\* C9: a request that names a document, smart link or condition key that
\* is not stored ends not found, resolves nothing and leaves the store as
\* it was, whatever the user's permissions.
C9_MissingKeyNotFound ==
    [][LET r == response'
       IN  (\/ r.view \in DocumentKeyViews /\ ~DocumentExists(r.document_id)
            \/ r.view \in SmartLinkKeyViews
                   /\ ~SmartLinkExists(r.smart_link_id)
            \/ r.view \in ConditionKeyViews
                   /\ ~ConditionExists(r.condition_id))
               => (/\ r.status = "not_found"
                   /\ ~r.resolved
                   /\ ~r.labelled
                   /\ store' = store)
      ]_vars


\* The available and the enabled document types of every smart link share
\* no type and together are every document type.
C11_ListsPartition ==
    \A s \in DOMAIN smart_links :
        /\ left_list(s) \cap right_list(s) = {}
        /\ left_list(s) \cup right_list(s) = DocumentTypeIds

\* A successful add(t) leaves t, and nothing else new, in the right list
\* and takes it out of the left list; a successful remove(t) does the
\* reverse; the lists of every other smart link stay as they were.
C11_Moves ==
    \A s \in SmartLinkKeys :
        LET r == response'
        IN  (/\ r.view \in {"setup_add", "setup_remove"}
             /\ r.status = "ok"
             /\ r.smart_link_id = s)
                => /\ r.view = "setup_add"
                          => /\ right_list(s)' = right_list(s) \cup {r.item}
                             /\ left_list(s)' = left_list(s) \ {r.item}
                   /\ r.view = "setup_remove"
                          => /\ right_list(s)' = right_list(s) \ {r.item}
                             /\ left_list(s)' = left_list(s) \cup {r.item}
                   /\ \A o \in SmartLinkKeys :
                          (o # s /\ o \in DOMAIN smart_links)
                              => /\ right_list(o)' = right_list(o)
                                 /\ left_list(o)' = left_list(o)

\* C11: after any sequence of add and remove requests the left list and
\* the right list of every smart link are disjoint and cover all document
\* types; add(t) moves t from the left list to the right list, remove(t)
\* moves it back, and neither changes the lists of another smart link.
C11_ListsPartitionAndMove ==
    /\ []C11_ListsPartition
    /\ [][C11_Moves]_vars

\* A remove that took a type out of one smart link's right list while
\* another smart link still has that type enabled.
C11_Witness ==
    /\ response.view = "setup_remove"
    /\ response.status = "ok"
    /\ response.changed
    /\ response.item \in left_list(response.smart_link_id)
    /\ \E o \in DOMAIN smart_links :
           /\ o # response.smart_link_id
           /\ response.item \in right_list(o)

====
